---- MODULE Spec2Model ----
(***************************************************************************)
(* Group arithmetic of the doppio twisted Edwards curve library            *)
(* (-u^2 + v^2 = 1 + d u^2 v^2): extended / Niels / completed point        *)
(* formulas, double-and-add scalar multiplication, the torsion tests and   *)
(* batch normalisation, together with the curve constants as the source    *)
(* writes them.                                                            *)
(*                                                                         *)
(* The constants are kept exactly (64-bit limbs written as four 16-bit     *)
(* chunks, byte strings as 32-element sequences).  Field elements are      *)
(* residues modulo ModQ, a 7-bit prime standing for the 255-bit base field *)
(* modulus, so that every point of the curve can be enumerated; a constant *)
(* built with Fq::from_raw is the integer its limbs spell, reduced.        *)
(***************************************************************************)
EXTENDS Integers, Sequences, FiniteSets, TLC

VARIABLES regs, op, args, out, steps, buf, ret

vars == <<regs, op, args, out, steps, buf, ret>>

(***************************************************************************)
(* Bounds of the model.                                                    *)
(***************************************************************************)
MaxOps == 2
MaxMulOps == 1
MaxScalar == 2
MaxLen == 2
MaxCalls == 2
MaxV == 16

(***************************************************************************)
(* Constants, digit for digit.                                             *)
(***************************************************************************)
\* fqconstants.rs: q, four little-endian 64-bit limbs
FQ_MODULUS == << <<\Hffff, \Hffff, \H0000, \H0001>>,
                 <<\H53bd, \Ha402, \Hfffe, \H5bfe>>,
                 <<\H3339, \Hd808, \H09a1, \Hd805>>,
                 <<\H73ed, \Ha753, \H299d, \H7d48>> >>

\* frconstants.rs: r, four little-endian 64-bit limbs
FR_MODULUS == << <<\Hd097, \H0e5e, \Hd6f7, \H2cb7>>,
                 <<\Ha668, \H2093, \Hccc8, \H1082>>,
                 <<\H0667, \H3b01, \H0134, \H3b00>>,
                 <<\H0e7d, \Hb4ea, \H6533, \Hafa9>> >>

\* curveconstants.rs: the limbs handed to Fq::from_raw for d
EDWARDS_D_RAW == << <<\H9403, \H565f, \H5a8d, \H532d>>,
                    <<\Hf2f0, \H7621, \H6468, \H02fb>>,
                    <<\H1bab, \Hc991, \H5ffa, \H2370>>,
                    <<\H02a8, \H4588, \Hfbff, \Hedd9>> >>

\* curveconstants.rs: the limbs handed to Fq::from_raw for 2d
EDWARDS_D2_RAW == << <<\H16b3, \H4ccf, \H69bf, \H0be0>>,
                     <<\H37e4, \H4f22, \Hcc2b, \Habfe>>,
                     <<\H1752, \H9def, \H406b, \H3085>>,
                     <<\H0626, \H3f0b, \H3951, \Hc45b>> >>

\* curveconstants.rs: byte representation of the scalar modulus
FR_MODULUS_BYTES ==
    <<1, 255, 255, 255, 255, 255, 255, 255, 255, 255, 255, 255, 255, 255, 255, 255,
      244, 155, 43, 240, 228, 159, 88, 215, 38, 169, 211, 222, 53, 183, 161, 231>>

\* Byte j (0 = least significant) of a 64-bit limb written as four chunks,
\* most significant chunk first, as the hexadecimal literal reads.
LimbByte(limb, j) ==
    LET chunk == limb[4 - (j \div 2)]
    IN  IF j % 2 = 0 THEN chunk % 256 ELSE chunk \div 256

\* The 32 little-endian bytes of a four-limb little-endian integer.
LimbsToBytes(limbs) ==
    [i \in 1..32 |-> LimbByte(limbs[((i - 1) \div 8) + 1], (i - 1) % 8)]

\* The integer a little-endian byte string spells, reduced modulo m.
RECURSIVE BytesModFrom(_, _, _)
BytesModFrom(bytes, i, m) ==
    IF i > Len(bytes) THEN 0
    ELSE (bytes[i] + 256 * BytesModFrom(bytes, i + 1, m)) % m

BytesMod(bytes, m) == BytesModFrom(bytes, 1, m)

(***************************************************************************)
(* Addition modulo m of integers below m, on little-endian byte strings of *)
(* equal length: what Fq's addition does to canonical 256-bit values.      *)
(***************************************************************************)
RECURSIVE BytesCarry(_, _, _)
BytesCarry(a, b, i) ==
    IF i = 1 THEN 0 ELSE (a[i - 1] + b[i - 1] + BytesCarry(a, b, i - 1)) \div 256

\* a + b, one byte longer than a and b
BytesAdd(a, b) ==
    [i \in 1..(Len(a) + 1) |->
        IF i <= Len(a) THEN (a[i] + b[i] + BytesCarry(a, b, i)) % 256
        ELSE BytesCarry(a, b, i)]

BytesLess(a, b) ==
    \E i \in 1..Len(a) : a[i] < b[i] /\ \A j \in (i + 1)..Len(a) : a[j] = b[j]

RECURSIVE BytesBorrow(_, _, _)
BytesBorrow(a, b, i) ==
    IF i = 1 THEN 0
    ELSE IF a[i - 1] - b[i - 1] - BytesBorrow(a, b, i - 1) < 0 THEN 1 ELSE 0

\* a - b for a >= b
BytesSub(a, b) ==
    [i \in 1..Len(a) |-> (a[i] - b[i] - BytesBorrow(a, b, i) + 256) % 256]

BytesAddMod(a, b, m) ==
    LET sum == BytesAdd(a, b)
        wide == [i \in 1..(Len(m) + 1) |-> IF i <= Len(m) THEN m[i] ELSE 0]
        reduced == IF BytesLess(sum, wide) THEN sum ELSE BytesSub(sum, wide)
    IN  [i \in 1..Len(m) |-> reduced[i]]

(***************************************************************************)
(* The base field Fq and the scalar field Fr.                              *)
(***************************************************************************)
\* The scaled modulus keeps what the constants are to the source's modulus:
\* -1 and EDWARDS_D are both squares modulo it (so the curve has points whose
\* doubling is exceptional), EDWARDS_D2 differs from EDWARDS_D + EDWARDS_D,
\* and an encoded field element leaves the top bit of its last byte free.
ModQ == 101
ModR == 3

Fq == 0..(ModQ - 1)
Fr == 0..(ModR - 1)

FqZero == 0
FqOne == 1
FqAdd(a, b) == (a + b) % ModQ
FqSub(a, b) == (a - b + ModQ) % ModQ
FqNeg(a) == (ModQ - a) % ModQ
FqMul(a, b) == (a * b) % ModQ
FqSquare(a) == (a * a) % ModQ
FqDouble(a) == (a + a) % ModQ

\* invert() -> CtOption<Fq>: fails iff the input is zero
FqInvert(a) ==
    IF a = 0 THEN [value |-> 0, is_some |-> 0]
    ELSE [value |-> CHOOSE b \in Fq : (a * b) % ModQ = 1, is_some |-> 1]

\* Fq::from_raw: the element the limbs spell
FqFromRaw(limbs) == BytesMod(LimbsToBytes(limbs), ModQ)

EDWARDS_D == FqFromRaw(EDWARDS_D_RAW)
EDWARDS_D2 == FqFromRaw(EDWARDS_D2_RAW)

FrAdd(a, b) == (a + b) % ModR
FrMul(a, b) == (a * b) % ModR
FrFromU64(n) == n % ModR

\* Fr::into_bytes: canonical 32-byte little-endian encoding
FrIntoBytes(a) == [i \in 1..32 |-> IF i = 1 THEN a ELSE 0]

(***************************************************************************)
(* Points.                                                                 *)
(***************************************************************************)
AffinePoint(u, v) == [u |-> u, v |-> v]

ExtendedPoint(u, v, z, t1, t2) == [u |-> u, v |-> v, z |-> z, t1 |-> t1, t2 |-> t2]

CompletedPoint(u, v, z, t) == [u |-> u, v |-> v, z |-> z, t |-> t]

\* AffinePoint::is_on_curve_vartime: -u^2 + v^2 = 1 + d u^2 v^2
AffineIsOnCurve(a) ==
    LET u2 == FqSquare(a.u)
        v2 == FqSquare(a.v)
    IN  FqSub(v2, u2) = FqAdd(FqOne, FqMul(EDWARDS_D, FqMul(u2, v2)))

CurvePoints == {a \in [u : Fq, v : Fq] : AffineIsOnCurve(a)}

AffineIdentity == AffinePoint(FqZero, FqOne)

\* The points the operations are given: those found by trying v = 0, 1, 2, ...
\* in turn, as find_curve_generator does with the first byte of an encoding.
InputPoints == {a \in CurvePoints : a.v <= MaxV}

\* AffinePoint::to_niels: (v + u, v - u, u v 2d)
AffineToNiels(a) ==
    [v_plus_u |-> FqAdd(a.v, a.u),
     v_minus_u |-> FqSub(a.v, a.u),
     t2d |-> FqMul(FqMul(a.u, a.v), EDWARDS_D2)]

\* From<ExtendedPoint> for AffinePoint: (U/Z, V/Z)
AffineFromExtended(e) ==
    LET zinv == FqInvert(e.z).value
    IN  AffinePoint(FqMul(e.u, zinv), FqMul(e.v, zinv))

\* CompletedPoint::into_extended
into_extended(c) ==
    ExtendedPoint(FqMul(c.u, c.t), FqMul(c.v, c.z), FqMul(c.z, c.t), c.u, c.v)

\* ConstantTimeEq for ExtendedPoint
ct_eq(a, b) ==
    /\ FqMul(a.u, b.z) = FqMul(b.u, a.z)
    /\ FqMul(a.v, b.z) = FqMul(b.v, a.z)

\* Neg for ExtendedPoint
neg(p) == ExtendedPoint(FqNeg(p.u), p.v, p.z, FqNeg(p.t1), p.t2)

\* From<AffinePoint> for ExtendedPoint
ExtendedFromAffine(a) == ExtendedPoint(a.u, a.v, FqOne, a.u, a.v)

\* ExtendedPoint::identity
identity == ExtendedPoint(FqZero, FqOne, FqOne, FqZero, FqZero)

\* ExtendedNielsPoint::identity
NielsIdentity ==
    [v_plus_u |-> FqOne, v_minus_u |-> FqOne, z |-> FqOne, t2d |-> FqZero]

\* An identity test that compares with the affine (0, 1) and ignores Z.
is_identity_affine_only(p) == p.u = FqZero /\ p.v = FqOne

\* ExtendedPoint::is_identity
is_identity(p) == p.u = FqZero /\ p.v = p.z

\* ExtendedPoint::to_niels
to_niels(p) ==
    [v_plus_u |-> FqAdd(p.v, p.u),
     v_minus_u |-> FqSub(p.v, p.u),
     z |-> p.z,
     t2d |-> FqMul(FqMul(p.t1, p.t2), EDWARDS_D2)]

\* ExtendedPoint::double
double(p) ==
    LET uu == FqSquare(p.u)
        vv == FqSquare(p.v)
        zz2 == FqDouble(FqSquare(p.z))
        uv2 == FqSquare(FqAdd(p.u, p.v))
        vv_plus_uu == FqAdd(vv, uu)
        vv_minus_uu == FqSub(vv, uu)
    IN  into_extended(CompletedPoint(FqSub(uv2, vv_plus_uu), vv_plus_uu,
                                     vv_minus_uu, FqSub(zz2, vv_minus_uu)))

\* ExtendedPoint::mul_by_cofactor
mul_by_cofactor(p) == double(double(double(p)))

\* ExtendedPoint::is_small_order
is_small_order(p) == double(double(p)).u = FqZero

\* Add<&ExtendedNielsPoint> for &ExtendedPoint
add_niels(p, other) ==
    LET a == FqMul(FqSub(p.v, p.u), other.v_minus_u)
        b == FqMul(FqAdd(p.v, p.u), other.v_plus_u)
        c == FqMul(FqMul(p.t1, p.t2), other.t2d)
        d == FqDouble(FqMul(p.z, other.z))
    IN  into_extended(CompletedPoint(FqSub(b, a), FqAdd(b, a), FqAdd(d, c), FqSub(d, c)))

\* Sub<&ExtendedNielsPoint> for &ExtendedPoint
sub_niels(p, other) ==
    LET a == FqMul(FqSub(p.v, p.u), other.v_plus_u)
        b == FqMul(FqAdd(p.v, p.u), other.v_minus_u)
        c == FqMul(FqMul(p.t1, p.t2), other.t2d)
        d == FqDouble(FqMul(p.z, other.z))
    IN  into_extended(CompletedPoint(FqSub(b, a), FqAdd(b, a), FqSub(d, c), FqAdd(d, c)))

\* Add<&AffineNielsPoint> for &ExtendedPoint
add_affine_niels(p, other) ==
    LET a == FqMul(FqSub(p.v, p.u), other.v_minus_u)
        b == FqMul(FqAdd(p.v, p.u), other.v_plus_u)
        c == FqMul(FqMul(p.t1, p.t2), other.t2d)
        d == FqDouble(p.z)
    IN  into_extended(CompletedPoint(FqSub(b, a), FqAdd(b, a), FqAdd(d, c), FqSub(d, c)))

\* A subtraction that forgets to swap v_plus_u with v_minus_u and the signs
\* of c: it adds.
sub_affine_niels_unswapped(p, other) == add_affine_niels(p, other)

\* Sub<&AffineNielsPoint> for &ExtendedPoint
sub_affine_niels(p, other) ==
    LET a == FqMul(FqSub(p.v, p.u), other.v_plus_u)
        b == FqMul(FqAdd(p.v, p.u), other.v_minus_u)
        c == FqMul(FqMul(p.t1, p.t2), other.t2d)
        d == FqDouble(p.z)
    IN  into_extended(CompletedPoint(FqSub(b, a), FqAdd(b, a), FqSub(d, c), FqAdd(d, c)))

\* Add<&ExtendedPoint> for &ExtendedPoint
add(p, other) == add_niels(p, to_niels(other))

\* Sub<&ExtendedPoint> for &ExtendedPoint
sub(p, other) == sub_niels(p, to_niels(other))

\* ConditionallySelectable for ExtendedNielsPoint
niels_conditional_select(a, b, choice) == IF choice = 1 THEN b ELSE a

\* One iteration of the loop of ExtendedPoint::multiply.
MultiplyStep(acc, zero, base, bit) ==
    add_niels(double(acc), niels_conditional_select(zero, base, bit))

\* The iterations for bits i, i - 1, ..., 0 of one byte: (byte >> i) & 1.
RECURSIVE MultiplyBits(_, _, _, _, _)
MultiplyBits(acc, zero, base, byte, i) ==
    IF i < 0 THEN acc
    ELSE LET next == MultiplyStep(acc, zero, base, (byte \div (2 ^ i)) % 2)
         IN  \* the test evaluates this iteration before the next one starts
             IF next.z \in Fq THEN MultiplyBits(next, zero, base, byte, i - 1)
             ELSE next

\* The iterations for bytes n, n - 1, ..., 1 (by.iter().rev()), the first
\* `skip` bits of the scan left out.
RECURSIVE MultiplyBytes(_, _, _, _, _, _)
MultiplyBytes(acc, zero, base, by, n, skip) ==
    IF n = 0 THEN acc
    ELSE LET next == MultiplyBits(acc, zero, base, by[n], 7 - skip)
         IN  \* the test evaluates this byte's iterations before the next byte starts
             IF next.z \in Fq THEN MultiplyBytes(next, zero, base, by, n - 1, 0)
             ELSE next

\* ExtendedPoint::multiply
multiply(p, by) == MultiplyBytes(identity, to_niels(identity), to_niels(p), by, 32, 4)

\* Mul<&Fr> for &ExtendedPoint
mul(p, s) == multiply(p, FrIntoBytes(s))

\* ExtendedPoint::is_torsion_free
is_torsion_free(p) == is_identity(multiply(p, FR_MODULUS_BYTES))

\* ExtendedPoint::is_prime_order
is_prime_order(p) == is_torsion_free(p) /\ ~is_identity(p)

\* ExtendedPoint::is_on_curve_vartime (the debugging check of the tests)
is_on_curve_vartime(p) ==
    LET affine == AffineFromExtended(p)
    IN  /\ p.z # FqZero
        /\ AffineIsOnCurve(affine)
        /\ FqMul(FqMul(affine.u, affine.v), p.z) = FqMul(p.t1, p.t2)

(***************************************************************************)
(* batch_normalize.                                                        *)
(***************************************************************************)
\* The first loop: p.t1 = acc; acc *= p.z, from element i on.
RECURSIVE BatchForward(_, _, _)
BatchForward(v, i, acc) ==
    IF i > Len(v) THEN [v |-> v, acc |-> acc]
    ELSE BatchForward([v EXCEPT ![i].t1 = acc], i + 1, FqMul(acc, v[i].z))

\* The second loop without `acc *= &q.z`: the running inverse is never
\* cancelled down to the earlier elements.
RECURSIVE BatchBackwardNoCancel(_, _, _)
BatchBackwardNoCancel(v, i, acc) ==
    IF i < 1 THEN v
    ELSE LET q == v[i]
             tmp == FqMul(q.t1, acc)
             u == FqMul(q.u, tmp)
             w == FqMul(q.v, tmp)
         IN  BatchBackwardNoCancel([v EXCEPT ![i] = ExtendedPoint(u, w, FqOne, u, w)],
                                   i - 1, acc)

\* The second loop without `q.z = Fq::one()`: the rescaled point keeps its
\* old z-coordinate.
RECURSIVE BatchBackwardKeepsZ(_, _, _)
BatchBackwardKeepsZ(v, i, acc) ==
    IF i < 1 THEN v
    ELSE LET q == v[i]
             tmp == FqMul(q.t1, acc)
             u == FqMul(q.u, tmp)
             w == FqMul(q.v, tmp)
         IN  BatchBackwardKeepsZ([v EXCEPT ![i] = ExtendedPoint(u, w, q.z, u, w)],
                                 i - 1, FqMul(acc, q.z))

\* The second loop, over the elements in reverse, from element i down.
RECURSIVE BatchBackward(_, _, _)
BatchBackward(v, i, acc) ==
    IF i < 1 THEN v
    ELSE LET q == v[i]
             tmp == FqMul(q.t1, acc)
             u == FqMul(q.u, tmp)
             w == FqMul(q.v, tmp)
         IN  BatchBackward([v EXCEPT ![i] = ExtendedPoint(u, w, FqOne, u, w)],
                           i - 1, FqMul(acc, q.z))

\* A batch_normalize that inverts before it writes: on failure the slice is
\* as the caller passed it.
batch_normalize_atomic(v) ==
    LET fwd == BatchForward(v, 1, FqOne)
        inv == FqInvert(fwd.acc)
    IN  IF inv.is_some = 0
        THEN [v |-> v, panicked |-> TRUE, result |-> <<>>]
        ELSE LET done == BatchBackward(fwd.v, Len(v), inv.value)
             IN  [v |-> done, panicked |-> FALSE,
                  result |-> [i \in 1..Len(v) |-> AffinePoint(done[i].u, done[i].v)]]

\* batch_normalize: the buffer it leaves and what it returns; acc.invert()
\* .unwrap() panics when the product of the z-coordinates is zero.
batch_normalize(v) ==
    LET fwd == BatchForward(v, 1, FqOne)
        inv == FqInvert(fwd.acc)
    IN  IF inv.is_some = 0
        THEN [v |-> fwd.v, panicked |-> TRUE, result |-> <<>>]
        ELSE LET done == BatchBackward(fwd.v, Len(v), inv.value)
             IN  [v |-> done, panicked |-> FALSE,
                  result |-> [i \in 1..Len(v) |-> AffinePoint(done[i].u, done[i].v)]]

(***************************************************************************)
(* Inputs.                                                                 *)
(***************************************************************************)
\* A 32-byte little-endian string spelling n < 2^16, with `top` as its last byte.
ScalarBytes(n, top) ==
    [i \in 1..32 |-> IF i = 1 THEN n % 256
                     ELSE IF i = 2 THEN n \div 256
                     ELSE IF i = 32 THEN top ELSE 0]

\* The integer multiply reads from a 32-byte string whose bytes 3..31 are zero.
ScalarValue(by) == by[1] + 256 * by[2]

\* The last byte of a scalar: all bits clear, or one of the four top bits set.
TopBytes == {0, 16}

Lifted == {ExtendedFromAffine(a) : a \in CurvePoints}

RECURSIVE DoubleTimes(_, _)
DoubleTimes(p, k) == IF k = 0 THEN p ELSE double(DoubleTimes(p, k - 1))

(***************************************************************************)
(* The group operations, applied to two working values.                    *)
(***************************************************************************)
Regs == {1, 2}

Init ==
    /\ regs = [i \in Regs |-> identity]
    /\ op = "identity"
    /\ args = <<>>
    /\ out = identity
    /\ steps = 0
    /\ buf = <<>>
    /\ ret = <<>>

\* regs[i] becomes `result`, the value of operation `name` on `operands`.
Apply(i, name, operands, result) ==
    /\ regs' = [regs EXCEPT ![i] = result]
    /\ op' = name
    /\ args' = operands
    /\ out' = result
    /\ steps' = steps + 1
    /\ UNCHANGED <<buf, ret>>

\* `result` is returned and no working value changes.
Query(name, operands, result) ==
    /\ op' = name
    /\ args' = operands
    /\ out' = result
    /\ steps' = steps + 1
    /\ UNCHANGED <<regs, buf, ret>>

Identity(i) ==
    /\ steps < MaxOps
    /\ Apply(i, "identity", <<>>, identity)

FromAffine(i, a) ==
    /\ steps < MaxOps
    /\ Apply(i, "from_affine", <<a>>, ExtendedFromAffine(a))

Neg(i) ==
    /\ steps < MaxOps
    /\ Apply(i, "neg", <<regs[i]>>, neg(regs[i]))

Double(i) ==
    /\ steps < MaxOps
    /\ Apply(i, "double", <<regs[i]>>, double(regs[i]))

MulByCofactor(i) ==
    /\ steps < MaxOps
    /\ Apply(i, "mul_by_cofactor", <<regs[i]>>, mul_by_cofactor(regs[i]))

AddExtended(i, j) ==
    /\ steps < MaxOps
    /\ Apply(i, "add", <<regs[i], regs[j]>>, add(regs[i], regs[j]))

SubExtended(i, j) ==
    /\ steps < MaxOps
    /\ Apply(i, "sub", <<regs[i], regs[j]>>, sub(regs[i], regs[j]))

AddNiels(i, j) ==
    /\ steps < MaxOps
    /\ Apply(i, "add_niels", <<regs[i], regs[j]>>, add_niels(regs[i], to_niels(regs[j])))

SubNiels(i, j) ==
    /\ steps < MaxOps
    /\ Apply(i, "sub_niels", <<regs[i], regs[j]>>, sub_niels(regs[i], to_niels(regs[j])))

AddAffineNiels(i, a) ==
    /\ steps < MaxOps
    /\ Apply(i, "add_affine_niels", <<regs[i], a>>,
             add_affine_niels(regs[i], AffineToNiels(a)))

SubAffineNiels(i, a) ==
    /\ steps < MaxOps
    /\ Apply(i, "sub_affine_niels", <<regs[i], a>>,
             sub_affine_niels(regs[i], AffineToNiels(a)))

Next ==
    \/ \E i \in Regs : Identity(i)
    \/ \E i \in Regs, a \in InputPoints : FromAffine(i, a)
    \/ \E i \in Regs : Neg(i)
    \/ \E i \in Regs : Double(i)
    \/ \E i \in Regs : MulByCofactor(i)
    \/ \E i \in Regs, j \in Regs : AddExtended(i, j)
    \/ \E i \in Regs, j \in Regs : SubExtended(i, j)
    \/ \E i \in Regs, j \in Regs : AddNiels(i, j)
    \/ \E i \in Regs, j \in Regs : SubNiels(i, j)
    \/ \E i \in Regs, a \in InputPoints : AddAffineNiels(i, a)
    \/ \E i \in Regs, a \in InputPoints : SubAffineNiels(i, a)

Spec == Init /\ [][Next]_vars

(***************************************************************************)
(* Scalar multiplication of one input point.                               *)
(***************************************************************************)
\* The inputs: a point of the curve, as lifted or after mul_by_cofactor.
InitMul ==
    /\ \E p \in Lifted : \E c \in BOOLEAN :
           regs = [i \in Regs |-> IF i = 1 THEN (IF c THEN mul_by_cofactor(p) ELSE p)
                                  ELSE identity]
    /\ op = "input"
    /\ args = <<>>
    /\ out = identity
    /\ steps = 0
    /\ buf = <<>>
    /\ ret = <<>>

Multiply(by) ==
    /\ steps < MaxMulOps
    /\ Apply(1, "multiply", <<regs[1], by>>, multiply(regs[1], by))

MulFr(s) ==
    /\ steps < MaxMulOps
    /\ Apply(1, "mul", <<regs[1], s>>, mul(regs[1], s))

IsTorsionFree ==
    /\ steps < MaxMulOps
    /\ Query("is_torsion_free", <<regs[1], FR_MODULUS_BYTES>>, is_torsion_free(regs[1]))

NextMul ==
    \/ \E n \in 0..MaxScalar, top \in TopBytes : Multiply(ScalarBytes(n, top))
    \/ \E s \in Fr : MulFr(s)
    \/ IsTorsionFree

SpecMul == InitMul /\ [][NextMul]_vars

(***************************************************************************)
(* batch_normalize on a slice of points.                                   *)
(***************************************************************************)
\* How many times a lifted point is doubled before it enters the slice.
Doublings == {0, 1}

InitBatch == Init

\* The caller appends a point to the slice it is about to normalise.
Push(a, k) ==
    /\ op # "batch_normalize"
    /\ Len(buf) < MaxLen
    /\ buf' = Append(buf, DoubleTimes(ExtendedFromAffine(a), k))
    /\ op' = "push"
    /\ args' = <<a, k>>
    /\ UNCHANGED <<regs, out, steps, ret>>

BatchNormalize ==
    /\ steps < MaxCalls
    /\ ~(op = "batch_normalize" /\ out = TRUE)   \* nothing runs after a panic
    /\ LET r == batch_normalize(buf)
       IN  /\ buf' = r.v
           /\ ret' = r.result
           /\ out' = r.panicked
    /\ op' = "batch_normalize"
    /\ args' = <<buf>>
    /\ steps' = steps + 1
    /\ UNCHANGED regs

NextBatch ==
    \/ \E a \in InputPoints, k \in Doublings : Push(a, k)
    \/ BatchNormalize

SpecBatch == InitBatch /\ [][NextBatch]_vars

(***************************************************************************)
(* multiply, one loop iteration at a time, with the point operations it    *)
(* performs written to a trace.                                            *)
(***************************************************************************)
\* .skip(4): the bits dropped from the front of the bit iterator
SkippedBits == 4

\* Bit f (from 0) of the iterator by.iter().rev().flat_map(bits 7..0)
IterBit(by, f) == (by[Len(by) - (f \div 8)] \div (2 ^ (7 - (f % 8)))) % 2

\* A loop body that adds only when the bit is set.
MultiplyIterOpsBranching(bit) ==
    IF bit = 1 THEN <<"double", "add">> ELSE <<"double">>

\* The point operations of one loop body: acc.double(), then the addition
\* of conditional_select(&zero, &base, bit)
MultiplyIterOps(bit) == <<"double", "add">>

\* The scalars multiply is traced on.
TraceScalars ==
    {ScalarBytes(n, top) : n \in 0..MaxScalar, top \in TopBytes} \cup {FR_MODULUS_BYTES}

InitTrace ==
    /\ \E a \in InputPoints, by \in TraceScalars : args = <<ExtendedFromAffine(a), by>>
    /\ regs = [i \in Regs |-> identity]
    /\ op = "multiply_loop"
    /\ out = identity
    /\ steps = 0
    /\ buf = <<>>
    /\ ret = <<>>

\* One iteration of the for loop: the iterator yields its next bit.
MultiplyIter ==
    /\ op = "multiply_loop"
    /\ steps + SkippedBits < 8 * Len(args[2])
    /\ LET bit == IterBit(args[2], steps + SkippedBits)
       IN  /\ out' = MultiplyStep(out, to_niels(identity), to_niels(args[1]), bit)
           /\ ret' = ret \o MultiplyIterOps(bit)
    /\ steps' = steps + 1
    /\ UNCHANGED <<regs, op, args, buf>>

\* The iterator is exhausted: multiply returns acc.
MultiplyReturn ==
    /\ op = "multiply_loop"
    /\ steps + SkippedBits >= 8 * Len(args[2])
    /\ op' = "multiply_done"
    /\ UNCHANGED <<regs, args, out, steps, buf, ret>>

NextTrace ==
    \/ MultiplyIter
    \/ MultiplyReturn

SpecTrace == InitTrace /\ [][NextTrace]_vars

(***************************************************************************)
(* Compressed encoding of affine points.                                   *)
(***************************************************************************)
\* Fq::lsb analogue: bit 0 of the canonical representative (into_bytes()[0] & 1)
FqLsb(a) == a % 2

\* Fq::into_bytes: canonical 32-byte little-endian encoding
FqIntoBytes(a) == [i \in 1..32 |-> IF i = 1 THEN a ELSE 0]

\* Fq::from_bytes -> CtOption<Fq>: fails iff the integer the bytes spell is
\* not below the modulus
FqFromBytes(b) ==
    IF (\A i \in 2..32 : b[i] = 0) /\ b[1] < ModQ
    THEN [value |-> b[1], is_some |-> 1]
    ELSE [value |-> 0, is_some |-> 0]

\* Fq::sqrt -> CtOption<Fq>: fails iff the input is a non-residue; which of
\* the two roots comes back is the implementation's choice, here `odd`.
FqSqrt(a, odd) ==
    IF \E r \in Fq : FqSquare(r) = a
    THEN LET r == CHOOSE r \in Fq : FqSquare(r) = a
         IN  [value |-> IF FqLsb(r) = odd THEN r ELSE FqNeg(r), is_some |-> 1]
    ELSE [value |-> 0, is_some |-> 0]

\* AffinePoint::into_bytes: v in little-endian bytes, lsb(u) folded into the
\* top bit of the last byte
into_bytes(a) ==
    [FqIntoBytes(a.v) EXCEPT ![32] = (@ % 128) + 128 * FqLsb(a.u)]

\* from_bytes without the sign fix-up: the root comes back as sqrt chose it.
from_bytes_no_sign_fixup(b, odd) ==
    LET v == FqFromBytes([b EXCEPT ![32] = @ % 128])
        v2 == FqSquare(v.value)
        den == FqInvert(FqAdd(FqOne, FqMul(EDWARDS_D, v2)))
        u == FqSqrt(FqMul(FqSub(v2, FqOne), den.value), odd)
    IN  IF v.is_some = 1 /\ den.is_some = 1 /\ u.is_some = 1
        THEN [value |-> AffinePoint(u.value, v.value), is_some |-> 1]
        ELSE [value |-> AffineIdentity, is_some |-> 0]

\* AffinePoint::from_bytes -> CtOption<AffinePoint>
from_bytes(b, odd) ==
    LET sign == b[32] \div 128
        v == FqFromBytes([b EXCEPT ![32] = @ % 128])
        v2 == FqSquare(v.value)
        den == FqInvert(FqAdd(FqOne, FqMul(EDWARDS_D, v2)))
        u == FqSqrt(FqMul(FqSub(v2, FqOne), den.value), odd)
        flip_sign == (FqLsb(u.value) + sign) % 2
        final_u == IF flip_sign = 1 THEN FqNeg(u.value) ELSE u.value
    IN  IF /\ v.is_some = 1
           /\ den.is_some = 1
           /\ u.is_some = 1
           /\ ~(u.value = FqZero /\ sign = 1)
        THEN [value |-> AffinePoint(final_u, v.value), is_some |-> 1]
        ELSE [value |-> AffineIdentity, is_some |-> 0]

\* The byte strings handed to from_bytes that no point need have produced:
\* a low byte, and a last byte with or without the sign bit and a stray bit.
Encodings ==
    {[i \in 1..32 |-> IF i = 1 THEN lo ELSE IF i = 32 THEN hi ELSE 0] :
        lo \in 0..127, hi \in {0, 1, 128, 129}}

InitBytes ==
    /\ regs = [i \in Regs |-> identity]
    /\ op = "start"
    /\ args = <<>>
    /\ out = <<>>
    /\ steps = 0
    /\ buf = <<>>
    /\ ret = <<>>

\* a.into_bytes() for a point of the curve
IntoBytes(a) ==
    /\ steps < MaxCalls
    /\ op # "into_bytes"
    /\ op' = "into_bytes"
    /\ args' = <<a>>
    /\ out' = into_bytes(a)
    /\ steps' = steps + 1
    /\ UNCHANGED <<regs, buf, ret>>

\* AffinePoint::from_bytes on the bytes into_bytes has just returned
FromBytes(odd) ==
    /\ op = "into_bytes"
    /\ op' = "from_bytes"
    /\ args' = <<out, args[1]>>
    /\ out' = from_bytes(out, odd)
    /\ UNCHANGED <<regs, steps, buf, ret>>

\* AffinePoint::from_bytes on any byte string
FromBytesRaw(b, odd) ==
    /\ steps < MaxCalls
    /\ op # "into_bytes"
    /\ op' = "from_bytes_raw"
    /\ args' = <<b>>
    /\ out' = from_bytes(b, odd)
    /\ steps' = steps + 1
    /\ UNCHANGED <<regs, buf, ret>>

NextBytes ==
    \/ \E a \in CurvePoints : IntoBytes(a)
    \/ \E odd \in {0, 1} : FromBytes(odd)
    \/ \E b \in Encodings, odd \in {0, 1} : FromBytesRaw(b, odd)

SpecBytes == InitBytes /\ [][NextBytes]_vars

(***************************************************************************)
(* Properties.                                                             *)
(***************************************************************************)
\* A valid point: Z # 0, on the curve, T1 T2 Z = U V.
Valid(p) == is_on_curve_vartime(p)

\* p added to itself n times, from the identity: ((O + p) + p) + ...
RECURSIVE NFold(_, _)
NFold(p, n) == IF n = 0 THEN identity ELSE add(NFold(p, n - 1), p)

\* C1: every point the operations produce from valid inputs has Z # 0,
\* T1 T2 Z = U V, and an affine image on the curve.
C1_PointsStayValid ==
    \A i \in Regs :
        /\ regs[i].z # FqZero
        /\ FqMul(FqMul(regs[i].t1, regs[i].t2), regs[i].z) = FqMul(regs[i].u, regs[i].v)
        /\ AffineIsOnCurve(AffineFromExtended(regs[i]))

\* C2: on valid points addition commutes and associates up to ct_eq:
\* p + q == q + p and (p + q) + r == p + (q + r).
C2_AddCommutesAndAssociates ==
    (Valid(regs[1]) /\ Valid(regs[2])) =>
        /\ ct_eq(add(regs[1], regs[2]), add(regs[2], regs[1]))
        /\ \A r \in Lifted :
               ct_eq(add(add(regs[1], regs[2]), r), add(regs[1], add(regs[2], r)))

\* C3: for a valid p, p + O == p, p + (-p) is the identity, and -(-p) == p.
C3_IdentityInverseNegation ==
    \A i \in Regs :
        Valid(regs[i]) =>
            /\ ct_eq(add(regs[i], identity), regs[i])
            /\ is_identity(add(regs[i], neg(regs[i])))
            /\ ct_eq(neg(neg(regs[i])), regs[i])
            /\ neg(regs[i]) = ExtendedPoint(FqNeg(regs[i].u), regs[i].v, regs[i].z,
                                            FqNeg(regs[i].t1), regs[i].t2)

\* C4: for a valid p the doubling formula agrees with the addition formula:
\* p.double() == p + p.
C4_DoubleIsAddToSelf ==
    \A i \in Regs : Valid(regs[i]) => ct_eq(double(regs[i]), add(regs[i], regs[i]))

\* C5: for a valid p and a scalar whose top four bits are clear,
\* multiply(p, by) is the n-fold sum of p, n the integer `by` spells.
C5_MultiplyIsNFoldSum ==
    (op = "multiply" /\ Valid(args[1]) /\ args[2][32] = 0) =>
        ct_eq(out, NFold(args[1], ScalarValue(args[2])))

\* The points of the prime-order subgroup: the cofactor multiples q of
\* points of the curve that the scaled r = 3 annihilates, 2 q = -q.
PrimeOrderInputs ==
    {q \in {mul_by_cofactor(p) : p \in Lifted} :
        is_on_curve_vartime(q) /\ ct_eq(double(q), neg(q))}

\* C6: for p in the prime-order subgroup and scalars a, b of Fr,
\* p * (a + b) == p * a + p * b and (p * a) * b == p * (a * b).
C6_MulCompatibleWithFr ==
    (op = "mul" /\ args[1] \in PrimeOrderInputs) =>
        \A a \in Fr, b \in Fr :
            /\ FrAdd(a, b) = args[2] =>
                   ct_eq(out, add(mul(args[1], a), mul(args[1], b)))
            /\ FrMul(a, b) = args[2] =>
                   LET pa == mul(args[1], a)
                   IN  pa.z \in Fq /\ ct_eq(out, mul(pa, b))

\* C7: for a valid non-identity a, a.mul_by_cofactor() is torsion free:
\* the test answers 1, multiply by FR_MODULUS_BYTES giving the identity.
C7_CofactorMultipleIsTorsionFree ==
    (/\ op = "is_torsion_free"
     /\ args[1] \in PrimeOrderInputs
     /\ \E a \in CurvePoints \ {AffineIdentity} :
            args[1] = mul_by_cofactor(ExtendedFromAffine(a))) =>
        /\ out = TRUE
        /\ LET product == multiply(args[1], args[2])
           IN  Valid(product) /\ ct_eq(product, identity)

\* C8: the scalar is_torsion_free multiplies by, FR_MODULUS_BYTES, is the
\* little-endian encoding of the Fr modulus: byte i is byte i mod 8 of limb i div 8.
C8_ModulusBytesAreLittleEndianR ==
    op = "is_torsion_free" =>
        \A i \in 0..31 :
            args[2][i + 1] = LimbByte(FR_MODULUS[(i \div 8) + 1], i % 8)

\* C9: the four bits multiply skips, bits 7..4 of the last byte, are zero in
\* the scalar is_torsion_free multiplies by.
C9_SkippedBitsAreZero ==
    op = "is_torsion_free" =>
        \A i \in 4..7 : (args[2][32] \div (2 ^ i)) % 2 = 0

\* C10: on a slice whose points all have Z # 0, batch_normalize returns, in
\* order, the affine image (U/Z, V/Z) of each point as it was before the call,
\* and leaves each point with Z = 1, T1 = U, T2 = V and the same group element.
C10_BatchNormalizeEquivalence ==
    (op = "batch_normalize" /\ \A i \in 1..Len(args[1]) : args[1][i].z # FqZero) =>
        /\ out = FALSE
        /\ Len(ret) = Len(args[1])
        /\ Len(buf) = Len(args[1])
        /\ \A i \in 1..Len(args[1]) :
               /\ ret[i] = AffineFromExtended(args[1][i])
               /\ buf[i].z = FqOne
               /\ buf[i].t1 = buf[i].u
               /\ buf[i].t2 = buf[i].v
               /\ ct_eq(buf[i], args[1][i])

\* A call on two points with different z-coordinates, neither of them one.
C10_Witness ==
    /\ op = "batch_normalize"
    /\ out = FALSE
    /\ Len(args[1]) = 2
    /\ args[1][1].z \notin {FqZero, FqOne}
    /\ args[1][2].z \notin {FqZero, FqOne, args[1][1].z}
    /\ args[1][1].t1 # args[1][1].u
    /\ ret = <<AffineFromExtended(args[1][1]), AffineFromExtended(args[1][2])>>

\* C11: batch_normalize is idempotent: a second call on the buffer a first
\* call left returns the same affine sequence and leaves the five
\* coordinates of every element exactly as the first call left them.
C11_BatchNormalizeIdempotent ==
    [][(op = "batch_normalize" /\ op' = "batch_normalize") =>
           (out' = FALSE /\ ret' = ret /\ buf' = buf)]_vars

\* A second call has run on a buffer of two different points.
C11_Witness ==
    /\ op = "batch_normalize"
    /\ steps = 2
    /\ out = FALSE
    /\ Len(buf) = 2
    /\ args[1] = buf
    /\ buf[1] # buf[2]
    /\ buf[1].u # FqZero
    /\ ret = <<AffinePoint(buf[1].u, buf[1].v), AffinePoint(buf[2].u, buf[2].v)>>

C13_SerializationRoundTrip ==
    /\ op = "from_bytes" =>
           /\ args[1] = into_bytes(args[2])
           /\ out = [value |-> args[2], is_some |-> 1]
    /\ (op = "from_bytes_raw" /\ out.is_some = 1) =>
           /\ out.value \in CurvePoints
           /\ into_bytes(out.value) = args[1]

\* A point with odd u, whose encoding carries the sign bit, has been decoded.
C13_Witness ==
    /\ op = "from_bytes"
    /\ FqLsb(args[2].u) = 1
    /\ args[1][32] = 128
    /\ out.is_some = 1
    /\ out.value = args[2]

\* The trace of n iterations of one double followed by one addition.
FixedTrace(n) == [i \in 1..(2 * n) |-> IF i % 2 = 1 THEN "double" ELSE "add"]

\* C14: whatever the base point and the 32-byte scalar, multiply runs 252
\* iterations, each one double followed by one addition of the selected
\* Niels point: the operations performed are the same for any two scalars.
C14_MultiplyTraceIsScalarIndependent ==
    /\ op = "multiply_loop" => ret = FixedTrace(steps)
    /\ op = "multiply_done" =>
           /\ steps = 252
           /\ ret = FixedTrace(252)
           /\ out = multiply(args[1], args[2])

\* multiply has returned on the scalar FR_MODULUS_BYTES, which has set and
\* clear bits, among them set bits in the skipped four.
C14_Witness ==
    /\ op = "multiply_done"
    /\ args[2] = FR_MODULUS_BYTES
    /\ args[1] # identity
    /\ Len(ret) = 504

\* C15: EDWARDS_D2 is twice EDWARDS_D in the base field: the integer its
\* limbs spell is (EDWARDS_D + EDWARDS_D) mod q, q the Fq MODULUS, so that the
\* fourth coordinate to_niels hands to an addition is T1 T2 2d.
C15_EdwardsD2IsTwiceD ==
    op \in {"add", "sub", "add_niels", "sub_niels"} =>
        /\ LimbsToBytes(EDWARDS_D2_RAW) =
               BytesAddMod(LimbsToBytes(EDWARDS_D_RAW), LimbsToBytes(EDWARDS_D_RAW),
                           LimbsToBytes(FQ_MODULUS))
        /\ EDWARDS_D2 = FqDouble(EDWARDS_D)
        /\ to_niels(args[2]).t2d =
               FqMul(FqMul(args[2].t1, args[2].t2), FqDouble(EDWARDS_D))

\* C16: is_identity does not depend on the projective representation: for a
\* valid p it answers 1 exactly when p ct_eq identity(), and the identity
\* that mul_by_cofactor returns is recognised whatever its Z and V are.
C16_IsIdentityAnyRepresentation ==
    /\ \A i \in Regs :
           Valid(regs[i]) => (is_identity(regs[i]) <=> ct_eq(regs[i], identity))
    /\ (op = "mul_by_cofactor" /\ Valid(out) /\ ct_eq(out, identity)) =>
           is_identity(out)

\* mul_by_cofactor has returned the identity with Z and V other than one,
\* beside the identity written with Z = V = 1.
C16_Witness ==
    /\ op = "mul_by_cofactor"
    /\ Valid(out)
    /\ is_identity(out)
    /\ out.z # FqOne
    /\ out.v # FqOne
    /\ \E i \in Regs : regs[i] = identity /\ regs[i].z # out.z /\ regs[i].v # out.v

\* C17: on valid p and q the subtraction formulas agree with adding the
\* negation, p - q.to_niels() == p + (-q).to_niels(), and for a point a of
\* the curve the affine-Niels formulas agree with the extended-Niels ones,
\* p + a.to_niels() == p + ExtendedPoint::from(a).to_niels() and the same
\* with -, all under ct_eq.
C17_SubAndAffineNielsAgree ==
    /\ \A i \in Regs, j \in Regs :
           (Valid(regs[i]) /\ Valid(regs[j])) =>
               ct_eq(sub_niels(regs[i], to_niels(regs[j])),
                     add_niels(regs[i], to_niels(neg(regs[j]))))
    /\ (op = "add_affine_niels" /\ Valid(args[1])) =>
           /\ out = add_affine_niels(args[1], AffineToNiels(args[2]))
           /\ ct_eq(out, add_niels(args[1], to_niels(ExtendedFromAffine(args[2]))))
    /\ (op = "sub_affine_niels" /\ Valid(args[1])) =>
           /\ out = sub_affine_niels(args[1], AffineToNiels(args[2]))
           /\ ct_eq(out, sub_niels(args[1], to_niels(ExtendedFromAffine(args[2]))))

\* An affine point with u # 0 has been subtracted from a valid point other
\* than the identity, and the result has Z # 0.
C17_Witness ==
    /\ op = "sub_affine_niels"
    /\ Valid(args[1])
    /\ ~is_identity(args[1])
    /\ args[1].z # FqOne
    /\ args[2].u # FqZero
    /\ out.z # FqZero
    /\ ct_eq(out, sub_niels(args[1], to_niels(ExtendedFromAffine(args[2]))))
    /\ ~ct_eq(out, add_affine_niels(args[1], AffineToNiels(args[2])))

\* The product of the z-coordinates of the elements before element i.
RECURSIVE RunningProduct(_, _)
RunningProduct(v, i) ==
    IF i = 1 THEN FqOne ELSE FqMul(RunningProduct(v, i - 1), v[i - 1].z)

\* T1 T2 Z = U V
ProductRelation(p) == FqMul(FqMul(p.t1, p.t2), p.z) = FqMul(p.u, p.v)

\* C18 as stated: when an element has Z = 0 the call panics only after the
\* forward pass has put the running product in every T1, so the buffer is
\* left with T1 T2 Z = U V violated rather than unchanged; with no zero Z,
\* the empty slice included, the inversion does not fail.
C18_PanicLeavesRelationViolated ==
    op = "batch_normalize" =>
        /\ out = (\E i \in 1..Len(args[1]) : args[1][i].z = FqZero)
        /\ out = TRUE =>
               /\ \A i \in 1..Len(buf) : buf[i].t1 = RunningProduct(args[1], i)
               /\ buf # args[1]
               /\ \E i \in 1..Len(buf) : ~ProductRelation(buf[i])

\* C18, amended: the call panics exactly when an element has Z = 0 (never on
\* the empty slice), it returns nothing then, and it leaves every element
\* with the running product of the preceding z-coordinates in T1 and its
\* other four coordinates as they were: T1 T2 Z = U V fails afterwards for
\* just those elements whose T2, Z, U, V do not satisfy it with that T1.
C18_PanicLeavesForwardPass ==
    op = "batch_normalize" =>
        /\ out = (\E i \in 1..Len(args[1]) : args[1][i].z = FqZero)
        /\ out = TRUE =>
               /\ ret = <<>>
               /\ Len(buf) = Len(args[1])
               /\ \A i \in 1..Len(buf) :
                      /\ buf[i] = [args[1][i] EXCEPT !.t1 = RunningProduct(args[1], i)]
                      /\ ProductRelation(buf[i]) <=>
                             FqMul(FqMul(RunningProduct(args[1], i), args[1][i].t2),
                                   args[1][i].z) = FqMul(args[1][i].u, args[1][i].v)

\* A call has panicked on a valid point with Z other than one followed by a
\* point with Z = 0: both T1 were overwritten and the first point no longer
\* satisfies T1 T2 Z = U V.
C18_Witness ==
    /\ op = "batch_normalize"
    /\ out = TRUE
    /\ Len(buf) = 2
    /\ Valid(args[1][1])
    /\ args[1][1].z # FqOne
    /\ args[1][2].z = FqZero
    /\ buf[1].t1 = FqOne
    /\ buf[2].t1 = args[1][1].z
    /\ buf[2].t1 # args[1][2].t1
    /\ ~ProductRelation(buf[1])

====
